---- MODULE Spec2Model ----
(***************************************************************************)
(* A model of labjackcontroller/labtools.py: LabjackReader.find_max_freq   *)
(* (the rate calibration search) and LabjackReader.collect_data (the       *)
(* capture loop), with the parts of LabjackReader._setup, _close_stream,   *)
(* open and LJMLibrary.stream_start they call, the callback Pool of        *)
(* collect_data, LabjackReader.open and close, and to_array with           *)
(* _reshape_data, max_index and max_row, called from a second thread; and  *)
(* the dictionaries of the LJMLibrary singleton under its connection and   *)
(* stream calls.                                                           *)
(*                                                                         *)
(* Rates are Python floats in the source.  Every rate the search computes  *)
(* is a dyadic rational (it only halves, doubles and multiplies by 1.5),   *)
(* so a rate r is held as the integer r * Scale; Scale is a power of two   *)
(* large enough that no halving within the bounds of the model loses a     *)
(* bit.  scans_per_read is compared with rates, so it is held the same     *)
(* way, with a tag saying whether Python holds it as a float.              *)
(***************************************************************************)
EXTENDS Integers, Sequences, FiniteSets, TLC

Scale == 2^16

\* The rate n (an integer number of Hz) in the fixed-point representation.
R(n) == n * Scale

\* Python's int(x) for a rate x >= 0, as an integer number of Hz.
IntPart(x) == x \div Scale

Min2(a, b) == IF a <= b THEN a ELSE b

Max2(a, b) == IF a >= b THEN a ELSE b

(***************************************************************************)
(* Bounds of the model.                                                    *)
(***************************************************************************)
\* Reads of one observation window (the source reads until num_seconds pass).
MaxReads == 2

\* The pass counter stops counting here.
PassCap == 45

\* A negative scans_per_read is followed down to -(2^NegDoublings); that value
\* stands for every smaller one.
NegDoublings == 3

\* Threshold rates (Hz) of the simulated devices: no candidate passes above.
Thresholds == {0, 30, 50, 100, 120, 230}

\* In exponential mode the candidate rate is followed up to the first rate
\* above MaxExpRate (Hz); only a device on which every candidate passes
\* gets there.
MaxExpRate == 400

\* The threshold of a device on which every candidate passes its window: a
\* rate no candidate of the model reaches.
NoThreshold == R(2 * MaxExpRate)

\* int(int(calculate_max_speed(...)) / 2): 0 when the maximum rate of the
\* configuration is unknown (-1, e.g. resolution 0), 300 for a T7 with one
\* channel at resolution 8 (600 Hz).
MaxFrequencies == {0, 300}

\* The simulated devices: how open and stream start answer ("ok": always
\* succeed, "never", "flaky": either), whether a window at or below the
\* threshold may fail too, and whether a read may raise LJMError.
Devices ==
    { [opens |-> "ok",    flaky |-> FALSE, read_errors |-> FALSE],
      [opens |-> "never", flaky |-> FALSE, read_errors |-> FALSE],
      [opens |-> "ok",    flaky |-> FALSE, read_errors |-> TRUE],
      [opens |-> "ok",    flaky |-> TRUE,  read_errors |-> FALSE],
      [opens |-> "flaky", flaky |-> FALSE, read_errors |-> FALSE] }

\* Arguments of collect_data: up to MaxChannels channels, a frequency of 1 to
\* MaxFrequencyArg Hz, a duration of 1 to MaxSeconds units of
\* 1 / TicksPerSecond seconds, scans_per_read -1 or 1 to MaxScansArg.
MaxChannels == 2

MaxFrequencyArg == 4

MaxSeconds == 4

TicksPerSecond == 4

MaxScansArg == 3

\* The host clock counts reads up to MaxClock; only a run whose packets are
\* empty, which never ends, reads that often.
MaxClock == 6

\* A packet arrives 1 to MaxDelay ticks of the host clock after the one
\* before.
MaxDelay == 2

\* Largest row number passed to to_array.
MaxRowArg == 3

\* Handles the library gives out, and the largest scans_per_read *
\* len(scan_list) of a stream.
NumHandles == 2

MaxBuffer == 2

\* The devices collect_data runs against: whether open and stream start
\* succeed, whether readings may be lost, whether a read may raise LJMError.
CdDevices ==
    { [opens |-> "ok",    lossy |-> FALSE, read_errors |-> FALSE],
      [opens |-> "ok",    lossy |-> TRUE,  read_errors |-> FALSE],
      [opens |-> "ok",    lossy |-> FALSE, read_errors |-> TRUE],
      [opens |-> "never", lossy |-> FALSE, read_errors |-> FALSE] }

VARIABLES
    \* ---- find_max_freq: locals ----
    min_rate, med_rate, max_rate, exponential_mode,
    scans_per_read, spr_float,
    last_good_rate, last_good_scan_per_packet, lgs_float,
    last_attempted_rate, last_attempted_sample,
    buffer_size, num_skips, ljm_buffer_size, max_buffer_size,
    pc,             \* position in find_max_freq
    ret,            \* what find_max_freq returned
    \* ---- LabjackReader / device ----
    connection_open,    \* LabjackReader._connection_open
    streaming,          \* a stream is running on the device
    used_scans,         \* scans_per_read _setup passed to stream_start
    lib_open,           \* the library holds an open connection to the device
    \* ---- the simulated device ----
    threshold,      \* no observation window passes above this rate
    opens,          \* "ok": open and start always succeed; "never"; "flaky"
    flaky,          \* windows at or below the threshold may fail too
    read_errors,    \* reads may raise LJMError
    max_frequency,  \* _setup's max_frequency for the configuration
    \* ---- history ----
    passes,         \* passes of the outer while(1) started so far
    window,         \* the reads of the current observation window
    last_pass,      \* the last window recorded as last_good
    \* ---- collect_data: arguments ----
    num_addrs,      \* len(inputs)
    seconds,        \* in units of 1 / TicksPerSecond
    frequency_arg,  \* frequency as passed (Hz)
    scans_arg,      \* scans_per_read as passed
    lossy,          \* the device may deliver -9999.0 readings
    num_ranges,     \* len(inputs_max_voltages)
    num_ain,        \* how many of the inputs are analog (AIN) channels
    callback,       \* a callback_function is given
    cb_fails,       \* the callback may raise
    \* ---- collect_data: locals ----
    cd_pc,          \* position in collect_data
    size,
    frequency_used, \* frequency after _setup
    scans_used,     \* scans_per_read after _setup
    total_skip,
    packet_num,
    curr_data,      \* the packet being unpacked
    row_i,          \* i of the for loop of line 1626
    curr_time,      \* in units of 1 / (frequency * len(inputs)) seconds
    clock,          \* _time_func() - start, in reads
    produced,       \* readings the device has delivered
    cd_ret,         \* what collect_data returned
    cd_error,       \* the exception that left collect_data
    \* ---- LabjackReader: the stored run ----
    _max_index,
    _data_arr,      \* <<>> stands for None
    _input_channels,\* len(self._input_channels)
    \* ---- collect_data: the callback pool ----
    all_waiting,    \* the list all_waiting, as the row numbers of its handles
    cb,             \* per submitted row: the row passed and the task's state
    \* ---- history of the call ----
    reached,        \* "none", "opened" (open() was called), "started" (the
                    \* stream runs and the storage of the run is set up)
    lost_total,     \* -9999.0 readings in the packets read so far
    failed_reads,   \* calls of LJM_eStreamRead that returned an error
    \* ---- a thread that calls to_array(mode='all') ----
    ta_pc,          \* "idle", "reshape" (inside _reshape_data), "returned"
    ta_req,         \* mode and kwargs of the call
    ta_max_row,     \* the local max_row of to_array
    ta_ret,         \* what to_array returned
    ta_called_at,   \* history: the value of reached when to_array was called
    \* ---- the LJMLibrary singleton and the streams of the devices ----
    _ljm_buffer,    \* dict: handle -> scans_per_read * len(scan_list)
    _ljm_is_open,   \* dict: handle -> bool
    dev_stream,     \* per handle: a stream is active on the device
    lib_call        \* the last call of the library and how it ended

fmfVars == <<min_rate, med_rate, max_rate, exponential_mode, scans_per_read,
             spr_float, last_good_rate, last_good_scan_per_packet, lgs_float,
             last_attempted_rate, last_attempted_sample, buffer_size,
             num_skips, ljm_buffer_size, max_buffer_size, pc, ret, passes,
             window, last_pass>>

libVars == <<_ljm_buffer, _ljm_is_open, dev_stream, lib_call>>

\* What the calls of LabjackReader leave alone: the behaviour of the
\* simulated device and the dictionaries of the library.
devVars == <<threshold, opens, flaky, read_errors, max_frequency, libVars>>

connVars == <<connection_open, streaming, used_scans, lib_open>>

cdArgs == <<num_addrs, seconds, frequency_arg, scans_arg, lossy, num_ranges,
            num_ain, callback, cb_fails>>

cdLocals == <<cd_pc, size, frequency_used, scans_used, total_skip, packet_num,
              curr_data, row_i, curr_time, clock, produced, cd_ret, cd_error>>

readerVars == <<_max_index, _data_arr, _input_channels>>

cbVars == <<all_waiting, cb>>

histVars == <<reached, lost_total, failed_reads>>

taVars == <<ta_pc, ta_req, ta_max_row, ta_ret, ta_called_at>>

cdVars == <<cdArgs, cdLocals, readerVars, cbVars, histVars, taVars>>

vars == <<fmfVars, devVars, connVars, cdVars>>

\* MAX_BUFFERSIZE and MAX_LJM_BUFFERSIZE of find_max_freq.
MAX_BUFFERSIZE == 0

MAX_LJM_BUFFERSIZE == 0

\* What one stream_read reports: whether the packet holds a -9999.0 reading,
\* the on-device backlog (ret[1]) and the driver-side backlog (ret[2]).
Readings ==
    { [skips |-> 0, dev |-> 0, ljm |-> 0],
      [skips |-> 1, dev |-> 0, ljm |-> 0],
      [skips |-> 0, dev |-> 1, ljm |-> 0],
      [skips |-> 0, dev |-> 0, ljm |-> 1] }

CleanReading(r) == r.skips = 0 /\ r.dev = 0 /\ r.ljm = 0

Pending == [kind |-> "pending", frequency |-> 0, scans_per_read |-> 0]

ReturnNone == [kind |-> "none", frequency |-> 0, scans_per_read |-> 0]

\* Rounding up to the next multiple of 100, which the source does not do.
Floor100RoundsUp(x) == x + R(100) - (x % R(100))

\* x - (x % 100), Python's modulo (the result has the sign of the divisor).
Floor100(x) == x - (x % R(100))

\* return last_good_rate - (last_good_rate % 100), last_good_scan_per_packet
ReturnLastGood == [kind |-> "pair",
                   frequency |-> Floor100(last_good_rate),
                   scans_per_read |-> last_good_scan_per_packet]

\* med_rate is the int 100 until the first assignment to it, a float after:
\* it is first assigned by the first success or by the first bisection.
MedIsFloat == ~(exponential_mode /\ last_good_rate < 0)

\* The least scans_per_read the model tells apart.  The source treats all
\* values below -1 alike: each is < med_rate, none is -1, none is > frequency.
ScansFloor == -R(2^NegDoublings)

\* A retry that leaves scans_per_read as it is once the search bisects.
GrownScansStuck ==
    IF exponential_mode
    THEN Max2(Min2(2 * scans_per_read, med_rate), ScansFloor)
    ELSE scans_per_read

\* A doubling that is not capped by the candidate rate.
GrownScansUncapped == Max2(2 * scans_per_read, ScansFloor)

\* scans_per_read = min(2 * scans_per_read, med_rate)
GrownScans == Max2(Min2(2 * scans_per_read, med_rate), ScansFloor)

GrownScansFloat == IF 2 * scans_per_read <= med_rate THEN spr_float
                   ELSE MedIsFloat

\* int(med_rate) == int(min_rate) or int(med_rate) == int(max_rate)
Degenerate(lo, mid, hi) ==
    \/ IntPart(mid) = IntPart(lo)
    \/ IntPart(mid) = IntPart(hi)

\* A step of the whole interval beyond the upper bound.
MidOvershoots(a, b) == a + b

\* (a + b) / 2
Mid(a, b) == (a + b) \div 2

(***************************************************************************)
(* LabjackReader._setup, as far as it decides what stream_start gets.      *)
(***************************************************************************)
SetupFrequency(frequency) ==
    IF frequency > R(max_frequency) THEN R(max_frequency) ELSE frequency

\* int(frequency / 2)
HalfInt(frequency) == R(IntPart(frequency \div 2))

SetupScansReplaced(frequency, spr) ==
    spr = R(-1) \/ spr > SetupFrequency(frequency)

SetupScans(frequency, spr) ==
    IF SetupScansReplaced(frequency, spr)
    THEN HalfInt(SetupFrequency(frequency))
    ELSE spr

\* stream_start wraps scans_per_read in c_int32, which raises TypeError for a
\* float.
StartTypeError(frequency, spr, isFloat) ==
    ~SetupScansReplaced(frequency, spr) /\ isFloat

\* A _close_stream that stops nothing.
CloseStreamLeavesStream == UNCHANGED <<streaming, connection_open, lib_open>>

(***************************************************************************)
(* LabjackReader._close_stream: stream_stop raises when no stream was      *)
(* started on the handle, and the exception is swallowed; when it stops a  *)
(* stream, _connection_open is cleared.                                    *)
(***************************************************************************)
CloseStream ==
    /\ streaming' = FALSE
    /\ connection_open' = IF streaming THEN FALSE ELSE connection_open
    /\ UNCHANGED lib_open

(***************************************************************************)
(* The stored run of a LabjackReader and the accessors that read it.       *)
(***************************************************************************)
\* The reading the source compares with to count skipped samples.
Sentinel == -9999

\* The k-th reading a device delivers when it loses nothing.
Reading(k) == k

NoPacket == <<>>

CdPending == [kind |-> "pending", total_time |-> 0, total_skip |-> 0,
              num_addrs |-> 1]

\* to_array has not returned.
TaPending == [kind |-> "pending", rows |-> <<>>]

\* to_array(mode='all')
ReqAll == [mode |-> "all", kw |-> TRUE, a |-> 0, b |-> 0]

\* The row numbers passed as start, end and num_rows.
RowArgs == -1..MaxRowArg

\* The calls of to_array: mode 'all'; mode 'range' with start a and end b;
\* mode 'relative' with num_rows a; both without their kwargs (kw FALSE);
\* and a mode that is none of the three.
Requests ==
    {ReqAll}
    \cup {[mode |-> "range", kw |-> TRUE, a |-> a, b |-> b] :
            a \in RowArgs, b \in RowArgs}
    \cup {[mode |-> "relative", kw |-> TRUE, a |-> a, b |-> 0] : a \in RowArgs}
    \cup {[mode |-> m, kw |-> FALSE, a |-> 0, b |-> 0] :
            m \in {"range", "relative"}}
    \cup {[mode |-> "other", kw |-> TRUE, a |-> 0, b |-> 0]}


Handles == 1..NumHandles

NoCall == [op |-> "none", handle |-> 0, out |-> "none"]

\* The class attributes of LJMLibrary: both dictionaries empty; no stream.
LibIdle ==
    /\ _ljm_buffer = <<>>
    /\ _ljm_is_open = <<>>
    /\ dev_stream = [h \in Handles |-> FALSE]
    /\ lib_call = NoCall

\* The class attributes of LabjackReader and the locals before any call.
CdIdle ==
    /\ num_addrs = 1
    /\ seconds = 1
    /\ frequency_arg = 1
    /\ scans_arg = -1
    /\ lossy = FALSE
    /\ cd_pc = "idle"
    /\ size = 0
    /\ frequency_used = 0
    /\ scans_used = 0
    /\ total_skip = 0
    /\ packet_num = 0
    /\ curr_data = NoPacket
    /\ row_i = 0
    /\ curr_time = 0
    /\ clock = 0
    /\ produced = 0
    /\ cd_ret = CdPending
    /\ cd_error = "none"
    /\ _max_index = 0
    /\ _data_arr = <<>>
    /\ _input_channels = 0
    /\ num_ranges = 1
    /\ num_ain = 1
    /\ callback = FALSE
    /\ cb_fails = FALSE
    /\ all_waiting = <<>>
    /\ cb = <<>>
    /\ reached = "none"
    /\ lost_total = 0
    /\ failed_reads = 0
    /\ ta_pc = "idle"
    /\ ta_req = ReqAll
    /\ ta_max_row = 0
    /\ ta_ret = TaPending
    /\ ta_called_at = "none"

\* The stored _max_index itself.
MaxIndexStored == _max_index

\* The property max_index: -1 while _max_index is 0.
MaxIndexProperty == IF _max_index # 0 THEN _max_index ELSE -1

\* The row width the property max_row divides by (line 855).
RowWidthOfMaxRow == _input_channels + 1

\* row_width = len(self._input_channels) + 2
RowWidth == _input_channels + 2

\* A Python slice arr[lo:hi] with 0 <= lo (indices from 0, hi clamped).
Slice(arr, lo, hi) == SubSeq(arr, lo + 1, Min2(hi, Len(arr)))

\* ceil(a / b) for a >= 0, b > 0
CeilDiv(a, b) == (a + b - 1) \div b

NoArray == [kind |-> "none", rows |-> <<>>]

\* numpy's reshape raises when the element count is not rows * width.
ReshapeError == [kind |-> "raised", rows |-> <<>>]

\* LabjackReader._reshape_data
ReshapeData(from_row, to_row) ==
    IF _data_arr # <<>> /\ MaxIndexProperty # -1 /\ from_row >= 0
    THEN LET max_index == Min2(MaxIndexProperty, RowWidth * to_row)
             start_index == from_row * RowWidth
             flat == Slice(_data_arr, start_index, max_index)
             nrows == CeilDiv(max_index - start_index, RowWidth)
         IN  IF Len(flat) = nrows * RowWidth
             THEN [kind |-> "array",
                   rows |-> [r \in 1..nrows |->
                               SubSeq(flat, (r - 1) * RowWidth + 1,
                                      r * RowWidth)]]
             ELSE ReshapeError
    ELSE NoArray

\* LabjackReader.to_array(mode='all')
ToArrayAll ==
    IF MaxIndexProperty < 0 THEN NoArray
    ELSE ReshapeData(0, MaxIndexProperty \div RowWidth)

FmfInit ==
    /\ min_rate = 0
    /\ med_rate = R(100)
    /\ max_rate = 0
    /\ exponential_mode = TRUE
    /\ scans_per_read = R(1)
    /\ spr_float = FALSE
    /\ last_good_rate = R(-1)
    /\ last_good_scan_per_packet = R(-1)
    /\ lgs_float = FALSE
    /\ last_attempted_rate = R(-1)
    /\ last_attempted_sample = R(-1)
    /\ buffer_size = 0
    /\ num_skips = 0
    /\ ljm_buffer_size = 0
    /\ max_buffer_size = 0
    /\ pc = "open"
    /\ ret = Pending
    /\ connection_open \in BOOLEAN
    /\ lib_open = connection_open
    /\ streaming = FALSE
    /\ used_scans = 0
    /\ \E d \in Devices :
        /\ opens = d.opens
        /\ flaky = d.flaky
        /\ read_errors = d.read_errors
        /\ \/ threshold \in {R(t) : t \in Thresholds}
           \/ /\ threshold = NoThreshold
              /\ d.opens = "ok" /\ ~d.flaky /\ ~d.read_errors
    /\ max_frequency \in MaxFrequencies
    /\ passes = 1
    /\ window = <<>>
    /\ last_pass = [rate |-> R(-1), scans |-> R(-1), used |-> R(-1)]
    /\ CdIdle
    /\ LibIdle

\* Passes are counted on the devices of the convergence property, which
\* always open and fail exactly above their threshold.
Counted == opens = "ok" /\ ~flaky /\ ~read_errors

NextPass == passes' = IF Counted THEN Min2(passes + 1, PassCap) ELSE passes

(***************************************************************************)
(* The open phase, lines 1320-1347: self.open() and self._setup(...).      *)
(***************************************************************************)
FmfOpenOk ==
    /\ pc = "open"
    /\ opens # "never"
    /\ ~streaming
    /\ ~StartTypeError(med_rate, scans_per_read, spr_float)
    /\ connection_open' = TRUE
    /\ lib_open' = TRUE
    /\ streaming' = TRUE
    /\ used_scans' = SetupScans(med_rate, scans_per_read)
    /\ pc' = "guard"
    /\ UNCHANGED <<min_rate, med_rate, max_rate, exponential_mode,
                   scans_per_read, spr_float, last_good_rate,
                   last_good_scan_per_packet, lgs_float, last_attempted_rate,
                   last_attempted_sample, buffer_size, num_skips,
                   ljm_buffer_size, max_buffer_size, ret, passes, window,
                   last_pass, devVars, cdVars>>

\* The except branch of the open phase.  The exception comes from open()
\* (only when no connection is open), or from _setup with the connection open.
FmfOpenFail ==
    /\ pc = "open"
    /\ \/ opens # "ok"
       \/ streaming
       \/ StartTypeError(med_rate, scans_per_read, spr_float)
    /\ \E inOpen \in BOOLEAN :
        /\ inOpen => (~connection_open /\ opens # "ok")
        /\ lib_open' = (lib_open \/ ~inOpen)
        /\ IF scans_per_read < med_rate
           THEN /\ scans_per_read' = GrownScans
                /\ spr_float' = GrownScansFloat
                /\ connection_open' = IF inOpen THEN connection_open ELSE TRUE
                /\ UNCHANGED <<exponential_mode, max_rate, med_rate, pc, ret,
                               streaming>>
           ELSE /\ exponential_mode' = FALSE
                /\ scans_per_read' = last_good_scan_per_packet
                /\ spr_float' = lgs_float
                /\ max_rate' = med_rate
                /\ med_rate' = Mid(min_rate, med_rate)
                /\ IF Degenerate(min_rate, med_rate', max_rate')
                   THEN /\ streaming' = FALSE
                        /\ connection_open' =
                              IF streaming THEN FALSE
                              ELSE IF inOpen THEN connection_open ELSE TRUE
                        /\ ret' = ReturnLastGood
                        /\ pc' = "done"
                   ELSE /\ connection_open' =
                              IF inOpen THEN connection_open ELSE TRUE
                        /\ UNCHANGED <<pc, ret, streaming>>
    /\ UNCHANGED <<min_rate, last_good_rate, last_good_scan_per_packet,
                   lgs_float, last_attempted_rate, last_attempted_sample,
                   buffer_size, num_skips, ljm_buffer_size, max_buffer_size,
                   passes, window, last_pass, used_scans, devVars, cdVars>>

(***************************************************************************)
(* The repeated-pair guard, lines 1351-1365, and the start of the window.  *)
(***************************************************************************)
\* At ScansFloor the two values compared are different values below the
\* floor (scans_per_read has doubled since the attempt), hence unequal.
RepeatedPair ==
    /\ last_attempted_rate = med_rate
    /\ last_attempted_sample = scans_per_read
    /\ scans_per_read > ScansFloor
    /\ ~exponential_mode

\* Lines 1351-1376: the guard adjusts a bound and restarts the while(1) loop
\* with continue, which skips the try statement and its finally clause;
\* otherwise the attempt is recorded and the window starts.
FmfGuard ==
    /\ pc = "guard"
    /\ IF RepeatedPair
       THEN /\ IF /\ last_attempted_rate = last_good_rate
                  /\ last_attempted_sample = last_good_scan_per_packet
               THEN /\ min_rate' = med_rate
                    /\ max_rate' = max_rate
               ELSE /\ max_rate' = med_rate
                    /\ min_rate' = min_rate
            /\ med_rate' = Mid(min_rate', max_rate')
            /\ pc' = "open"
            /\ NextPass
            /\ UNCHANGED <<last_attempted_rate, last_attempted_sample,
                           buffer_size, num_skips, ljm_buffer_size,
                           max_buffer_size, window>>
       ELSE /\ last_attempted_rate' = med_rate
            /\ last_attempted_sample' = scans_per_read
            /\ buffer_size' = 0
            /\ num_skips' = 0
            /\ ljm_buffer_size' = 0
            /\ max_buffer_size' = 0
            /\ window' = <<>>
            /\ pc' = "window"
            /\ UNCHANGED <<min_rate, med_rate, max_rate, passes>>
    /\ UNCHANGED <<exponential_mode, scans_per_read, spr_float,
                   last_good_rate, last_good_scan_per_packet, lgs_float,
                   ret, last_pass, devVars, connVars, cdVars>>

(***************************************************************************)
(* The observation window, lines 1378-1415.                                *)
(***************************************************************************)
\* The test of line 1393, on the values after the read.
ObservationFailed(bs, skips, ljm) ==
    \/ bs > MAX_BUFFERSIZE
    \/ skips # 0
    \/ ljm > MAX_LJM_BUFFERSIZE

\* The test of line 1429 without its num_skips operand.
ObservationPassedIgnoringSkips(bs, skips, ljm) ==
    /\ bs <= MAX_BUFFERSIZE
    /\ ljm <= MAX_LJM_BUFFERSIZE

\* The test of line 1429.
ObservationPassed(bs, skips, ljm) ==
    /\ bs <= MAX_BUFFERSIZE
    /\ skips = 0
    /\ ljm <= MAX_LJM_BUFFERSIZE

\* What the simulated device may answer to a read at the candidate rate.
DeviceReading(r) ==
    IF med_rate > threshold THEN ~CleanReading(r)
    ELSE flaky \/ CleanReading(r)

\* One pass of the while loop of line 1379: a read, the bookkeeping of lines
\* 1383-1391 and the failure branch of lines 1393-1415.
FmfRead ==
    /\ pc = "window"
    /\ Len(window) < MaxReads
    /\ \E r \in Readings :
        /\ DeviceReading(r)
        /\ window' = Append(window, r)
        /\ buffer_size' = r.dev
        /\ ljm_buffer_size' = Max2(ljm_buffer_size, r.ljm)
        /\ num_skips' = num_skips + r.skips
        /\ max_buffer_size' = Max2(max_buffer_size, r.dev)
    /\ IF ObservationFailed(buffer_size', num_skips', ljm_buffer_size')
       THEN IF scans_per_read < med_rate
            THEN /\ scans_per_read' = GrownScans
                 /\ spr_float' = GrownScansFloat
                 /\ pc' = "else"
                 /\ UNCHANGED <<max_rate, med_rate, exponential_mode, ret,
                                connVars>>
            ELSE /\ scans_per_read' = R(1)
                 /\ spr_float' = FALSE
                 /\ max_rate' = med_rate
                 /\ med_rate' = Mid(min_rate, med_rate)
                 /\ exponential_mode' = FALSE
                 /\ IF Degenerate(min_rate, med_rate', max_rate')
                    THEN /\ CloseStream
                         /\ ret' = ReturnLastGood
                         /\ pc' = "done"
                         /\ UNCHANGED used_scans
                    ELSE /\ pc' = "else"
                         /\ UNCHANGED <<ret, connVars>>
       ELSE UNCHANGED <<scans_per_read, spr_float, max_rate, med_rate,
                        exponential_mode, pc, ret, connVars>>
    /\ UNCHANGED <<min_rate, last_good_rate, last_good_scan_per_packet,
                   lgs_float, last_attempted_rate, last_attempted_sample,
                   passes, last_pass, devVars, cdVars>>

\* num_seconds have passed: the while loop of line 1379 ends.
FmfWindowEnd ==
    /\ pc = "window"
    /\ Len(window) >= 1
    /\ pc' = "else"
    /\ UNCHANGED <<min_rate, med_rate, max_rate, exponential_mode,
                   scans_per_read, spr_float, last_good_rate,
                   last_good_scan_per_packet, lgs_float, last_attempted_rate,
                   last_attempted_sample, buffer_size, num_skips,
                   ljm_buffer_size, max_buffer_size, ret, passes, window,
                   last_pass, devVars, connVars, cdVars>>

\* stream_read raises LJMError: the handler of lines 1417-1427, then the
\* finally clause.  The break of line 1427 leaves the while(1) loop, after
\* which the function ends without a return statement.
FmfReadError ==
    /\ pc = "window"
    /\ read_errors
    /\ Len(window) < MaxReads
    /\ CloseStream
    /\ IF scans_per_read < med_rate
       THEN /\ scans_per_read' = GrownScans
            /\ spr_float' = GrownScansFloat
            /\ pc' = "open"
            /\ NextPass
            /\ UNCHANGED <<max_rate, med_rate, exponential_mode, ret>>
       ELSE /\ scans_per_read' = last_good_scan_per_packet
            /\ spr_float' = lgs_float
            /\ max_rate' = med_rate
            /\ med_rate' = Mid(min_rate, med_rate)
            /\ exponential_mode' = FALSE
            /\ ret' = ReturnNone
            /\ pc' = "done"
            /\ UNCHANGED passes
    /\ UNCHANGED <<min_rate, last_good_rate, last_good_scan_per_packet,
                   lgs_float, last_attempted_rate, last_attempted_sample,
                   buffer_size, num_skips, ljm_buffer_size, max_buffer_size,
                   window, last_pass, used_scans, devVars, cdVars>>

(***************************************************************************)
(* The else clause of the try, lines 1428-1452, and the finally clause.    *)
(***************************************************************************)
FmfSuccess ==
    /\ pc = "else"
    /\ ObservationPassed(buffer_size, num_skips, ljm_buffer_size)
    /\ exponential_mode => med_rate <= R(MaxExpRate)
    /\ last_good_rate' = med_rate
    /\ last_good_scan_per_packet' = scans_per_read
    /\ lgs_float' = spr_float
    /\ last_pass' = [rate |-> med_rate, scans |-> scans_per_read,
                     used |-> used_scans]
    /\ min_rate' = med_rate
    /\ IF exponential_mode
       THEN /\ max_rate' = 2 * med_rate
            /\ med_rate' = (3 * med_rate) \div 2
       ELSE /\ max_rate' = max_rate
            /\ med_rate' = Mid(max_rate, med_rate)
    /\ CloseStream
    /\ IF Degenerate(min_rate', med_rate', max_rate')
       THEN /\ ret' = [kind |-> "pair",
                       frequency |-> Floor100(last_good_rate'),
                       scans_per_read |-> last_good_scan_per_packet']
            /\ pc' = "done"
            /\ UNCHANGED passes
       ELSE /\ pc' = "open"
            /\ NextPass
            /\ UNCHANGED ret
    /\ UNCHANGED <<exponential_mode, scans_per_read, spr_float,
                   last_attempted_rate, last_attempted_sample, buffer_size,
                   num_skips, ljm_buffer_size, max_buffer_size, window,
                   used_scans, devVars, cdVars>>

\* The candidate did not pass: only the finally clause runs.
FmfFinally ==
    /\ pc = "else"
    /\ ~ObservationPassed(buffer_size, num_skips, ljm_buffer_size)
    /\ CloseStream
    /\ pc' = "open"
    /\ NextPass
    /\ UNCHANGED <<min_rate, med_rate, max_rate, exponential_mode,
                   scans_per_read, spr_float, last_good_rate,
                   last_good_scan_per_packet, lgs_float, last_attempted_rate,
                   last_attempted_sample, buffer_size, num_skips,
                   ljm_buffer_size, max_buffer_size, ret, window, last_pass,
                   used_scans, devVars, cdVars>>

FmfNext ==
    \/ FmfOpenOk
    \/ FmfOpenFail
    \/ FmfGuard
    \/ FmfRead
    \/ FmfWindowEnd
    \/ FmfReadError
    \/ FmfSuccess
    \/ FmfFinally

FmfSpec == FmfInit /\ [][FmfNext]_vars

\* find_max_freq runs in one thread, which keeps running until it returns.
FmfLiveSpec == FmfSpec /\ WF_vars(FmfNext)

(***************************************************************************)
(* LabjackReader.collect_data, lines 1553-1704, called without a callback  *)
(* on a reader that holds no data.                                          *)
(***************************************************************************)
\* The calls made.  Plans with analog channels only and one range each, of
\* every duration, frequency and packet size within the bounds.
ValidPlans ==
    { [n |-> n, ain |-> n, ranges |-> n, s |-> s, f |-> f, spr |-> spr] :
        n \in 1..MaxChannels, s \in 1..MaxSeconds, f \in 1..MaxFrequencyArg,
        spr \in {-1} \cup (1..MaxScansArg) }

\* Plans with no channel, or a duration or a frequency that is not positive.
InvalidPlans ==
    { p \in [n : 0..MaxChannels, ain : {0}, ranges : {1}, s : {-1, 0, 1},
             f : {-1, 0, 1}, spr : {-1}] :
        p.n = 0 \/ p.s <= 0 \/ p.f <= 0 }

\* Plans of one second at 1 Hz whose channels are analog or digital and
\* whose number of ranges is any.
RangePlans ==
    { p \in [n : 1..MaxChannels, ain : 0..MaxChannels,
             ranges : 0..(MaxChannels + 1), s : {TicksPerSecond}, f : {1},
             spr : {1}] :
        p.ain <= p.n }

CdPlans == ValidPlans \cup InvalidPlans \cup RangePlans

\* The reader and the device the call meets: the kind of device, the
\* maximum frequency of the configuration, whether a connection is open and
\* a stream left running, whether the reader holds a run, and the callback.
CdEnvs ==
    { e \in [device : CdDevices, max_frequency : MaxFrequencies,
             connection_open : BOOLEAN, streaming : BOOLEAN,
             lib_open : BOOLEAN, prior : BOOLEAN,
             callback : {FALSE}, cb_fails : {FALSE}] :
        (e.connection_open \/ e.streaming) => e.lib_open }
    \cup
    [device : {d \in CdDevices : d.opens = "ok" /\ ~d.lossy /\ ~d.read_errors},
     max_frequency : {300}, connection_open : {FALSE}, streaming : {FALSE},
     lib_open : {FALSE}, prior : {FALSE}, callback : {TRUE},
     cb_fails : BOOLEAN]

\* The run a reader holds after collect_data(["AIN0"], [10.0], 1, 1).
PriorArray == <<1, 0, 1>>

CdInit ==
    /\ \E p \in CdPlans :
        /\ num_addrs = p.n
        /\ num_ain = p.ain
        /\ num_ranges = p.ranges
        /\ seconds = p.s
        /\ frequency_arg = p.f
        /\ scans_arg = p.spr
    /\ \E e \in CdEnvs :
        /\ opens = e.device.opens
        /\ lossy = e.device.lossy
        /\ read_errors = e.device.read_errors
        /\ max_frequency = e.max_frequency
        /\ connection_open = e.connection_open
        /\ streaming = e.streaming
        /\ lib_open = e.lib_open
        /\ callback = e.callback
        /\ cb_fails = e.cb_fails
        /\ _max_index = IF e.prior THEN Len(PriorArray) ELSE 0
        /\ _data_arr = IF e.prior THEN PriorArray ELSE <<>>
        /\ _input_channels = IF e.prior THEN 1 ELSE 0
    /\ LibIdle
    /\ flaky = FALSE
    /\ threshold = 0
    /\ used_scans = 0
    /\ cd_pc = "call"
    /\ size = 0
    /\ frequency_used = 0
    /\ scans_used = 0
    /\ total_skip = 0
    /\ packet_num = 0
    /\ curr_data = NoPacket
    /\ row_i = 0
    /\ curr_time = 0
    /\ clock = 0
    /\ produced = 0
    /\ cd_ret = CdPending
    /\ cd_error = "none"
    /\ all_waiting = <<>>
    /\ cb = <<>>
    /\ reached = "none"
    /\ lost_total = 0
    /\ failed_reads = 0
    /\ ta_pc = "idle"
    /\ ta_req = ReqAll
    /\ ta_max_row = 0
    /\ ta_ret = TaPending
    /\ ta_called_at = "none"
    /\ min_rate = 0
    /\ med_rate = R(100)
    /\ max_rate = 0
    /\ exponential_mode = TRUE
    /\ scans_per_read = R(1)
    /\ spr_float = FALSE
    /\ last_good_rate = R(-1)
    /\ last_good_scan_per_packet = R(-1)
    /\ lgs_float = FALSE
    /\ last_attempted_rate = R(-1)
    /\ last_attempted_sample = R(-1)
    /\ buffer_size = 0
    /\ num_skips = 0
    /\ ljm_buffer_size = 0
    /\ max_buffer_size = 0
    /\ pc = "idle"
    /\ ret = Pending
    /\ passes = 1
    /\ window = <<>>
    /\ last_pass = [rate |-> R(-1), scans |-> R(-1), used |-> R(-1)]

\* size = int(seconds * frequency * (len(inputs) + 2))
Size == (seconds * frequency_arg * (num_addrs + 2)) \div TicksPerSecond

\* What _setup returns for the arguments of collect_data.
CdSetupFrequency == IntPart(SetupFrequency(R(frequency_arg)))

CdSetupScans == IntPart(SetupScans(R(frequency_arg), R(scans_arg)))

\* A cursor left where the run before left it.
StartIndexKept == _max_index

\* Line 1606: self.max_index = 0
StartIndex == 0

\* (ctypes.c_double * size)(size): zeros, the first element set to size.
NewArray(n) == [k \in 1..n |-> IF k = 1 THEN n ELSE 0]

\* The checks of lines 1555-1572 alone, without the one of the frequency.
PlanRejectedBeforeFrequency ==
    \/ num_addrs = 0
    \/ num_ranges = 0
    \/ seconds <= 0

\* The checks of lines 1555-1576.  The two loops over inputs test that each
\* channel is a string; nothing tests the ranges beyond their being non-empty.
PlanRejected ==
    \/ num_addrs = 0
    \/ num_ranges = 0
    \/ seconds <= 0
    \/ frequency_arg <= 0

\* Lines 1553-1576: modify_settings(stream_settling_time="auto") writes
\* nothing (the setting is not one modify_settings handles), then the plan
\* is checked.
CdValidate ==
    /\ cd_pc = "call"
    /\ IF PlanRejected
       THEN /\ cd_error' = "ValueError"
            /\ cd_pc' = "raised"
       ELSE /\ cd_pc' = "open"
            /\ UNCHANGED cd_error
    /\ UNCHANGED <<cdArgs, size, frequency_used, scans_used, total_skip,
                   packet_num, curr_data, row_i, curr_time, clock, produced,
                   cd_ret, readerVars, cbVars, histVars, taVars, fmfVars, devVars,
                   connVars>>

\* Lines 1579-1602 when open and stream start succeed: the connection, the
\* stream, size, and the assignment of self._input_channels.  The cursor and
\* the array of the run before are still in place.
CdStart ==
    /\ cd_pc = "open"
    /\ opens = "ok"
    /\ reached' = "opened"
    /\ connection_open' = ~streaming
    /\ lib_open' = TRUE
    /\ streaming' = TRUE
    /\ used_scans' = SetupScans(R(frequency_arg), R(scans_arg))
    /\ size' = Size
    /\ frequency_used' = CdSetupFrequency
    /\ scans_used' = CdSetupScans
    /\ _input_channels' = num_addrs
    /\ cd_pc' = "reset"
    /\ UNCHANGED <<cdArgs, total_skip, packet_num, curr_data, row_i,
                   curr_time, clock, produced, cd_ret, cd_error, _max_index,
                   _data_arr, cbVars, lost_total, failed_reads, taVars,
                   fmfVars, devVars>>

\* Lines 1604-1607: the counters and self.max_index = 0.
CdCursor ==
    /\ cd_pc = "reset"
    /\ total_skip' = 0
    /\ packet_num' = 0
    /\ _max_index' = StartIndex
    /\ cd_pc' = "alloc"
    /\ UNCHANGED <<cdArgs, size, frequency_used, scans_used, curr_data,
                   row_i, curr_time, clock, produced, cd_ret, cd_error,
                   _data_arr, _input_channels, cbVars, histVars, taVars,
                   fmfVars, devVars, connVars>>

\* Line 1610: the new array.  The allocation raises IndexError for size 0,
\* with the stream running.
CdAlloc ==
    /\ cd_pc = "alloc"
    /\ reached' = "started"
    /\ IF size = 0
       THEN /\ cd_error' = "IndexError"
            /\ cd_pc' = "raised"
            /\ UNCHANGED _data_arr
       ELSE /\ _data_arr' = NewArray(size)
            /\ cd_pc' = "read"
            /\ UNCHANGED cd_error
    /\ UNCHANGED <<cdArgs, size, frequency_used, scans_used, total_skip,
                   packet_num, curr_data, row_i, curr_time, clock, produced,
                   cd_ret, _max_index, _input_channels, cbVars, lost_total,
                   failed_reads, taVars, fmfVars, devVars, connVars>>

\* open() raises when no connection is open; otherwise _close_stream runs and
\* _setup raises, in ljm.eWriteNames or in stream_start.  A device may also
\* refuse a stream of zero scans per read, and eWriteNames, which is given
\* len(names) as the number of frames, may fail when the number of values is
\* another.
CdStartFail ==
    /\ cd_pc = "open"
    /\ opens = "never" \/ CdSetupScans = 0 \/ num_ranges # num_ain
    /\ reached' = "opened"
    /\ IF ~connection_open /\ opens = "never"
       THEN UNCHANGED <<connection_open, streaming, lib_open>>
       ELSE /\ streaming' = FALSE
            /\ connection_open' = ~streaming
            /\ lib_open' = TRUE
    /\ cd_error' = "LJMError"
    /\ cd_pc' = "raised"
    /\ UNCHANGED <<cdArgs, size, frequency_used, scans_used, total_skip,
                   packet_num, curr_data, row_i, curr_time, clock, produced,
                   cd_ret, readerVars, used_scans, cbVars, lost_total,
                   failed_reads,
                   taVars, fmfVars, devVars>>

\* The -9999.0 readings of a packet.
Skipped(packet) == Cardinality({j \in 1..Len(packet) : packet[j] = Sentinel})

\* The packet of one stream_read: scans_per_read * len(inputs) readings, of
\* which a lossy device may have replaced one (at position lost) by -9999.0.
Packet(lost) ==
    [j \in 1..(scans_used * num_addrs) |->
        IF j = lost THEN Sentinel ELSE Reading(produced + j)]

\* Lines 1615-1618: the loop test and stream_read.
CdRead ==
    /\ cd_pc = "read"
    /\ MaxIndexProperty < size
    /\ \E lost \in 0..(scans_used * num_addrs) :
        /\ (lost # 0) => lossy
        /\ curr_data' = Packet(lost)
    /\ lost_total' = lost_total + Skipped(curr_data')
    /\ produced' = produced + scans_used * num_addrs
    /\ \E delay \in 1..MaxDelay : clock' = Min2(clock + delay, MaxClock)
    /\ row_i' = 0
    /\ cd_pc' = "row"
    /\ UNCHANGED <<cdArgs, size, frequency_used, scans_used, total_skip,
                   packet_num, curr_time, cd_ret, cd_error, readerVars,
                   cbVars, reached, failed_reads, taVars, fmfVars, devVars,
                   connVars>>

\* LJM_eStreamRead returns an error: stream_read raises LJMError (lines
\* 555-562), which collect_data does not catch.
CdReadError ==
    /\ cd_pc = "read"
    /\ MaxIndexProperty < size
    /\ read_errors
    /\ failed_reads' = failed_reads + 1
    /\ cd_error' = "LJMError"
    /\ cd_pc' = "raised"
    /\ UNCHANGED <<cdArgs, size, frequency_used, scans_used, total_skip,
                   packet_num, curr_data, row_i, curr_time, clock, produced,
                   cd_ret, readerVars, cbVars, reached, lost_total, taVars,
                   fmfVars, devVars, connVars>>

\* A row time taken from the host clock at the arrival of the packet.
CurrTimeOfArrival == clock * Len(curr_data) + row_i

\* (scans_per_read / frequency) * (packet_num + i / len(curr_data)), which
\* equals (packet_num * len(curr_data) + i) / (frequency * len(inputs)); the
\* numerator is kept, the denominator is the same for every row of a run.
CurrTime == packet_num * Len(curr_data) + row_i

\* arr with arr[at - 1 : at - 1 + len(vals)] = vals
WithSliceOneBelow(arr, at, vals) ==
    [k \in 1..Len(arr) |->
        IF k > at - 1 /\ k <= at - 1 + Len(vals) THEN vals[k - at + 1]
        ELSE arr[k]]

\* arr with arr[at : at + len(vals)] = vals
WithSlice(arr, at, vals) ==
    [k \in 1..Len(arr) |->
        IF k > at /\ k <= at + Len(vals) THEN vals[k - at] ELSE arr[k]]

\* num_threads, the default size of the Pool (line 1473).
NumThreads == 4

\* The handles collect_data still holds in all_waiting.
Waiting == {all_waiting[k] : k \in 1..Len(all_waiting)}

\* AsyncResult.ready(): the task has returned or raised.
Ready(h) == cb[h].state # "pending"

\* A pass over all_waiting that calls get() on every handle it holds.
GetCalledOnEvery(h) == TRUE

\* Lines 1654-1657: get() is called on a handle only if it is ready.
GetCalledOn(h) == Ready(h)

\* The row without its last cell, the host time.
CallbackRowWithoutHostTime(arr, mi) == Slice(arr, mi - num_addrs - 2, mi - 1)

\* Line 1652: self._data_arr[self._max_index - step_size - 2:
\* self._max_index], a slice of a ctypes array, which is a new list.
CallbackRow(arr, mi) == Slice(arr, mi - num_addrs - 2, mi)

\* A worker of the Pool finishes the task of handle h: tasks are started in
\* the order of submission, at most NumThreads at a time, and a task returns
\* or, with a failing callback, raises.  The Pool lives until collect_data
\* is left.
CbFinish ==
    /\ cd_pc \notin {"idle", "call", "open", "raised", "done"}
    /\ \E h \in 1..Len(cb) :
        /\ cb[h].state = "pending"
        /\ Cardinality({g \in 1..(h - 1) : cb[g].state = "pending"})
               < NumThreads
        /\ cb' = [cb EXCEPT ![h].state =
                      IF cb_fails THEN "failed" ELSE "done"]
    /\ UNCHANGED <<cdArgs, cdLocals, readerVars, all_waiting, histVars,
                   taVars, fmfVars, devVars, connVars>>

\* Lines 1626-1642: one pass of the for loop up to the write of the readings.
\* The loop ends with the packet, or at the break of line 1629; a slice
\* assignment of a different length raises ValueError.  After the for loop
\* comes the pass of lines 1654-1657 over all_waiting: get() returns once
\* its task is ready and re-raises what a failed task raised; no handle is
\* taken out of all_waiting.
CdRow ==
    /\ cd_pc = "row"
    /\ IF row_i >= Len(curr_data) \/ _max_index >= size
       THEN /\ callback => \A h \in Waiting : GetCalledOn(h) => Ready(h)
            /\ IF callback /\ \E h \in Waiting :
                                 GetCalledOn(h) /\ cb[h].state = "failed"
               THEN /\ cd_error' = "CallbackError"
                    /\ cd_pc' = "raised"
               ELSE /\ cd_pc' = "read"
                    /\ UNCHANGED cd_error
            /\ UNCHANGED <<curr_time, readerVars>>
       ELSE IF _max_index + num_addrs > size
       THEN /\ curr_time' = CurrTime
            /\ cd_error' = "ValueError"
            /\ cd_pc' = "raised"
            /\ UNCHANGED readerVars
       ELSE /\ curr_time' = CurrTime
            /\ _data_arr' = WithSlice(_data_arr, _max_index,
                                      Slice(curr_data, row_i,
                                            row_i + num_addrs))
            /\ _max_index' = _max_index + num_addrs
            /\ cd_pc' = "time"
            /\ UNCHANGED <<cd_error, _input_channels>>
    /\ UNCHANGED <<cdArgs, size, frequency_used, scans_used, total_skip,
                   packet_num, curr_data, row_i, clock, produced, cd_ret,
                   cbVars, histVars, taVars, fmfVars, devVars, connVars>>

\* Lines 1645-1646; an index equal to the size raises IndexError.
CdTime ==
    /\ cd_pc = "time"
    /\ IF _max_index >= size
       THEN /\ cd_error' = "IndexError"
            /\ cd_pc' = "raised"
            /\ UNCHANGED readerVars
       ELSE /\ _data_arr' = [_data_arr EXCEPT ![_max_index + 1] = curr_time]
            /\ _max_index' = _max_index + 1
            /\ cd_pc' = "host"
            /\ UNCHANGED <<cd_error, _input_channels>>
    /\ UNCHANGED <<cdArgs, size, frequency_used, scans_used, total_skip,
                   packet_num, curr_data, row_i, curr_time, clock, produced,
                   cd_ret, cbVars, histVars, taVars, fmfVars, devVars, connVars>>

\* Lines 1647-1652, and the step of the for loop: the host time is written
\* and, with a callback, the row is handed to the Pool and its handle kept.
CdHost ==
    /\ cd_pc = "host"
    /\ IF _max_index >= size
       THEN /\ cd_error' = "IndexError"
            /\ cd_pc' = "raised"
            /\ UNCHANGED <<row_i, readerVars, cbVars>>
       ELSE /\ _data_arr' = [_data_arr EXCEPT ![_max_index + 1] = clock]
            /\ _max_index' = _max_index + 1
            /\ row_i' = row_i + num_addrs
            /\ cd_pc' = "row"
            /\ IF callback
               THEN /\ cb' = Append(cb,
                              [row |-> CallbackRow(_data_arr', _max_index'),
                               state |-> "pending"])
                    /\ all_waiting' = Append(all_waiting, Len(cb) + 1)
               ELSE UNCHANGED cbVars
            /\ UNCHANGED <<cd_error, _input_channels>>
    /\ UNCHANGED <<cdArgs, size, frequency_used, scans_used, total_skip,
                   packet_num, curr_data, curr_time, clock, produced,
                   cd_ret, histVars, taVars, fmfVars, devVars, connVars>>

\* all_waiting without its k-th handle (del all_waiting[i]).
Del(k) == SubSeq(all_waiting, 1, k - 1)
              \o SubSeq(all_waiting, k + 1, Len(all_waiting))

\* Lines 1660-1665, after the capture loop: the first ready handle of
\* all_waiting is got and deleted; the loop spins while none is ready.
CdDrain ==
    /\ cd_pc = "read"
    /\ ~(MaxIndexProperty < size)
    /\ callback /\ Len(all_waiting) > 0
    /\ \E k \in 1..Len(all_waiting) :
        /\ Ready(all_waiting[k])
        /\ \A j \in 1..(k - 1) : ~Ready(all_waiting[j])
        /\ IF cb[all_waiting[k]].state = "failed"
           THEN /\ cd_error' = "CallbackError"
                /\ cd_pc' = "raised"
                /\ UNCHANGED all_waiting
           ELSE /\ all_waiting' = Del(k)
                /\ UNCHANGED <<cd_error, cd_pc>>
    /\ UNCHANGED <<cdArgs, size, frequency_used, scans_used, total_skip,
                   packet_num, curr_data, row_i, curr_time, clock, produced,
                   cd_ret, readerVars, cb, histVars, taVars, fmfVars, devVars,
                   connVars>>

\* The code after the capture loop entered with handles still held.
DrainSkipped == TRUE

\* Line 1660: the drain loop is left when there is no callback or
\* all_waiting is empty.
Drained == ~(callback /\ Len(all_waiting) > 0)

\* Lines 1667-1704, after the capture loop: packet_num and the skip count
\* are updated once, from the last packet read; the stream is stopped and
\* (total_time, total_skip / num_addrs) is returned.
CdFinish ==
    /\ cd_pc = "read"
    /\ ~(MaxIndexProperty < size)
    /\ Drained
    /\ packet_num' = packet_num + 1
    /\ total_skip' = total_skip + Skipped(curr_data)
    /\ IF Len(curr_data) < num_addrs
       THEN /\ cd_error' = "IndexError"
            /\ cd_pc' = "raised"
            /\ UNCHANGED <<cd_ret, connVars>>
       ELSE /\ CloseStream
            /\ cd_ret' = [kind |-> "pair", total_time |-> clock,
                          total_skip |-> total_skip', num_addrs |-> num_addrs]
            /\ cd_pc' = "done"
            /\ UNCHANGED <<cd_error, used_scans>>
    /\ UNCHANGED <<cdArgs, size, frequency_used, scans_used, curr_data,
                   row_i, curr_time, clock, produced, readerVars, cbVars, histVars, taVars, fmfVars,
                   devVars>>

\* collect_data has been left, by a return or by an exception.
Quiescent == cd_pc \in {"done", "raised"}

\* LabjackReader.open(), called after collect_data was left: with
\* _connection_open set it does nothing; otherwise the library opens the
\* device, or raises and leaves the reader as it was.
ReaderOpen ==
    /\ Quiescent
    /\ ~connection_open
    /\ opens # "never"
    /\ lib_open' = TRUE
    /\ connection_open' = TRUE
    /\ UNCHANGED <<streaming, used_scans, cdVars, fmfVars, devVars>>

\* LabjackReader.close(), called after collect_data was left: _close_stream,
\* then connection_close, then _connection_open = False.
ReaderClose ==
    /\ Quiescent
    /\ lib_open
    /\ streaming' = FALSE
    /\ lib_open' = FALSE
    /\ connection_open' = FALSE
    /\ UNCHANGED <<used_scans, cdVars, fmfVars, devVars>>

CdNext ==
    \/ CdValidate
    \/ CdStart
    \/ CdCursor
    \/ CdAlloc
    \/ CdStartFail
    \/ CdRead
    \/ CdReadError
    \/ CdRow
    \/ CdTime
    \/ CdHost
    \/ CbFinish
    \/ CdDrain
    \/ CdFinish
    \/ ReaderOpen
    \/ ReaderClose

CdSpec == CdInit /\ [][CdNext]_vars

\* A step of the thread that runs the capture loop of lines 1615-1657.
CaptureStep == CdRead \/ CdReadError \/ CdRow \/ CdTime \/ CdHost

\* collect_data with a thread that keeps running its capture loop; nothing
\* is assumed of the Pool, whose workers may never finish a callback.
CdLiveSpec == CdSpec /\ WF_vars(CaptureStep)

\* The steps of collect_data after the capture loop: the drain loop of lines
\* 1659-1665 and the return.
DrainStep == CdDrain \/ CdFinish

\* collect_data with a thread that keeps running and a Pool whose workers
\* finish every callback they were given.
CdFairSpec ==
    /\ CdSpec
    /\ WF_vars(CaptureStep)
    /\ WF_vars(DrainStep)
    /\ WF_vars(CbFinish)

\* max_row = int(max_row / row_width) rounded up instead of down.
TaMaxRowCeil(mi) == CeilDiv(mi, RowWidth)

\* Lines 1777-1778: max_row = int(max_row / row_width)
TaMaxRow(mi) == mi \div RowWidth

\* Line 1785: 0 <= from_range < to_range and to_range < max_row
RangeAccepted(q, max_row) == 0 <= q.a /\ q.a < q.b /\ q.b < max_row

\* Line 1795, negated: num_rows < 0 or num_rows > max_row raises.
RelativeAccepted(q, max_row) == ~(q.a < 0 \/ q.a > max_row)

\* Lines 1780-1802: what to_array does once max_row is known: it calls
\* _reshape_data, raises Exception, or falls off its end and returns None.
TaBranch(q, max_row) ==
    CASE q.mode = "all" -> "reshape"
      [] q.mode = "range" ->
            IF q.kw /\ RangeAccepted(q, max_row) THEN "reshape" ELSE "raise"
      [] q.mode = "relative" ->
            IF q.kw /\ RelativeAccepted(q, max_row) THEN "reshape"
            ELSE "raise"
      [] OTHER -> "none"

\* The arguments of the call of _reshape_data.
TaFrom(q, max_row) ==
    CASE q.mode = "range" -> q.a
      [] q.mode = "relative" -> max_row - q.a
      [] OTHER -> 0

TaTo(q, max_row) == IF q.mode = "range" THEN q.b ELSE max_row

TaRaised == [kind |-> "raised", rows |-> <<>>]

\* Lines 1773-1802 of to_array up to the call of _reshape_data, run by
\* another thread: mode 'all' at any moment, the other calls after
\* collect_data was left.
TaBegin ==
    /\ ta_pc = "idle"
    /\ \E q \in Requests :
        /\ q = ReqAll \/ Quiescent
        /\ ta_req' = q
        /\ IF MaxIndexProperty < 0
           THEN /\ ta_ret' = NoArray
                /\ ta_pc' = "returned"
                /\ UNCHANGED ta_max_row
           ELSE /\ ta_max_row' = TaMaxRow(MaxIndexProperty)
                /\ ta_ret' =
                      CASE TaBranch(q, ta_max_row') = "reshape" -> TaPending
                        [] TaBranch(q, ta_max_row') = "raise" -> TaRaised
                        [] OTHER -> NoArray
                /\ ta_pc' = IF TaBranch(q, ta_max_row') = "reshape"
                            THEN "reshape" ELSE "returned"
    /\ ta_called_at' = reached
    /\ UNCHANGED <<cdArgs, cdLocals, readerVars, cbVars, histVars, fmfVars,
                   devVars, connVars>>

\* _reshape_data(from_row, to_row), which reads max_index and the array
\* again, and the return of to_array.
TaReshape ==
    /\ ta_pc = "reshape"
    /\ ta_ret' = ReshapeData(TaFrom(ta_req, ta_max_row),
                             TaTo(ta_req, ta_max_row))
    /\ ta_pc' = "returned"
    /\ UNCHANGED <<ta_req, ta_max_row, ta_called_at, cdArgs, cdLocals,
                   readerVars, cbVars, histVars, fmfVars, devVars, connVars>>

\* collect_data without a callback on a reader with no connection, and a
\* second thread that calls to_array once.
RdInit ==
    /\ CdInit
    /\ ~callback
    /\ opens = "ok"
    /\ max_frequency = 300
    /\ ~connection_open
    /\ ~streaming

RdNext ==
    \/ CdValidate
    \/ CdStart
    \/ CdCursor
    \/ CdAlloc
    \/ CdStartFail
    \/ CdRead
    \/ CdReadError
    \/ CdRow
    \/ CdTime
    \/ CdHost
    \/ CdFinish
    \/ TaBegin
    \/ TaReshape

RdSpec == RdInit /\ [][RdNext]_vars

(***************************************************************************)
(* Properties of find_max_freq, checked under FmfSpec.                     *)
(***************************************************************************)
\* The devices of the convergence property: open and start always succeed,
\* no read raises, and a window passes exactly when the candidate rate is at
\* most the threshold.
ThresholdDevice == opens = "ok" /\ ~flaky /\ ~read_errors

Returned == pc = "done"

\* C1 as stated: on a threshold device with any threshold F > 0, the call
\* returns a frequency that is > 0 and <= F.
C1_PositiveForEveryThreshold ==
    (ThresholdDevice /\ threshold > 0 /\ Returned)
        => /\ ret.kind = "pair"
           /\ ret.frequency > 0
           /\ ret.frequency <= threshold

\* C1 amended: on a threshold device with a threshold F >= 100 Hz, the call
\* returns a frequency that is > 0 (a multiple of 100) and <= F.
C1_PositiveFromHundred ==
    (ThresholdDevice /\ threshold >= R(100) /\ Returned)
        => /\ ret.kind = "pair"
           /\ ret.frequency > 0
           /\ ret.frequency % R(100) = 0
           /\ ret.frequency <= threshold

\* A threshold device with F >= 200 on which the search returned 200 Hz after
\* leaving exponential mode.
C1_Witness ==
    /\ ThresholdDevice
    /\ Returned
    /\ ~exponential_mode
    /\ ret.frequency = R(200)

\* C2 as stated: on a threshold device the call ends within 40 passes of the
\* outer loop: no 41st pass starts.
C2_WithinFortyPasses ==
    (ThresholdDevice /\ threshold > 0) => passes <= 40

\* C3 as stated: on a device that never opens, or whose reads raise nothing
\* and whose windows all fail, a call that returns without any candidate
\* having passed returns (-1, -1).
C3_TotalFailureReturnsMinusOne ==
    (Returned /\ ~read_errors /\ last_good_rate = R(-1))
        => ret = [kind |-> "pair", frequency |-> R(-1),
                  scans_per_read |-> R(-1)]

\* C4 as stated: also with reads that raise LJMError, the call ends by
\* returning a (frequency, packet_size) pair.
C4_ReadErrorStillReturnsPair ==
    (read_errors /\ Returned) => ret.kind = "pair"

\* C5: a candidate is recorded as last_good only when every read of its
\* window was clean: no -9999.0 reading, on-device backlog and driver-side
\* backlog at most the ceiling.
C5_LastGoodOnlyAfterCleanWindow ==
    [][ (last_good_rate' # last_good_rate
           \/ last_good_scan_per_packet' # last_good_scan_per_packet)
        => /\ Len(window) >= 1
           /\ \A i \in 1..Len(window) :
                /\ window[i].skips = 0
                /\ window[i].dev <= MAX_BUFFERSIZE
                /\ window[i].ljm <= MAX_LJM_BUFFERSIZE
           /\ last_good_rate' = last_attempted_rate
           /\ last_good_scan_per_packet' = last_attempted_sample ]_vars

\* A candidate recorded as last_good after a window of several reads, on a
\* device whose windows may also fail.
C5_Witness ==
    /\ flaky
    /\ last_good_rate # R(-1)
    /\ last_good_rate = last_attempted_rate
    /\ Len(window) >= 2
    /\ pc = "open"

\* C6 as stated: a call that returns after a candidate passed returns the
\* rate of the last passing candidate floored to a multiple of 100, with the
\* packet size the search used for that window.
C6_ReturnsLastPassingCandidate ==
    (Returned /\ last_pass.rate # R(-1))
        => /\ ret.kind = "pair"
           /\ ret.frequency = last_pass.rate - (last_pass.rate % R(100))
           /\ ret.scans_per_read = last_pass.scans

\* C7: no stream is running when an iteration is about to open and start a
\* stream, nor when the call has returned.
C7_StreamStoppedBetweenIterations ==
    (pc \in {"open", "done"}) => ~streaming

\* An iteration that started a stream and ran a window has ended, and the next
\* one is about to start a stream.
C7_Witness ==
    /\ pc = "open"
    /\ last_attempted_rate = med_rate
    /\ last_attempted_sample # scans_per_read
    /\ Len(window) >= 1

(***************************************************************************)
(* Properties of collect_data, checked under CdSpec.                       *)
(***************************************************************************)
CdReturned == cd_pc = "done"

\* seconds * frequency is an integer.
WholeProduct == (seconds * frequency_arg) % TicksPerSecond = 0

\* C8: after collect_data returned on a device that loses no sample, with
\* seconds * frequency an integer, to_array(mode='all') has seconds *
\* frequency rows of len(channels) + 2 values and the returned skip is 0.
C8_ZeroLossRowCount ==
    (CdReturned /\ ~lossy /\ WholeProduct)
        => /\ ToArrayAll.kind = "array"
           /\ Len(ToArrayAll.rows) = (seconds * frequency_arg) \div TicksPerSecond
           /\ \A r \in 1..Len(ToArrayAll.rows) :
                Len(ToArrayAll.rows[r]) = num_addrs + 2
           /\ cd_ret.total_skip = 0

\* A returned zero-loss run of three rows of two channels, read in packets
\* of one scan.
C8_Witness ==
    /\ CdReturned
    /\ ~lossy
    /\ WholeProduct
    /\ num_addrs = 2
    /\ scans_used = 1
    /\ clock = 3
    /\ Len(ToArrayAll.rows) = 3

\* C9 as stated: a row is started only if its len(channels) + 2 values fit,
\* so the cursor never passes the size, no exception comes from a write, and
\* between rows the cursor is a whole number of rows.
C9_RowStartedOnlyIfItFits ==
    (reached = "started")
        => /\ _max_index <= size
           /\ (cd_pc \in {"time", "host"})
                => _max_index - (_max_index % (num_addrs + 2))
                       + num_addrs + 2 <= size
           /\ (cd_pc \in {"read", "row", "done", "raised"})
                => _max_index % (num_addrs + 2) = 0

\* The device_time of the row that starts at flat index at.
DeviceTimeAt(at) == _data_arr[at + num_addrs + 1]

\* C10 as stated: the device_time of successive written rows never
\* decreases.
C10_DeviceTimeNonDecreasing ==
    (reached = "started" /\ cd_pc \in {"read", "row", "done"})
        => \A r \in 1..(_max_index \div (num_addrs + 2)) :
              r >= 2 => DeviceTimeAt((r - 2) * (num_addrs + 2))
                            <= DeviceTimeAt((r - 1) * (num_addrs + 2))

\* C11 as stated: the returned skip value, total_skip / len(channels), is
\* k / len(channels) for the k readings equal to -9999.0 in all the packets
\* the run read.
C11_SkipCountsEveryPacket ==
    CdReturned => cd_ret.total_skip = lost_total

\* C12 as stated: when collect_data has ended after starting its stream, by
\* returning, by a read error or by a callback failure, the stream has been
\* stopped.
C12_StreamStoppedOnEveryExit ==
    (/\ reached = "started"
     /\ \/ cd_pc = "done"
        \/ cd_pc = "raised" /\ cd_error \in {"LJMError", "CallbackError"})
        => ~streaming

\* C13: a call with no channel, or with a duration or a frequency that is
\* not positive, raises ValueError in its first step, before open() is
\* called, and leaves the stored array, max_index, the channel list, the
\* connection status and the device's stream as they were.
C13_InvalidPlanRaisesFirst ==
    [][ (cd_pc = "call"
           /\ (num_addrs = 0 \/ seconds <= 0 \/ frequency_arg <= 0))
        => /\ cd_pc' = "raised"
           /\ cd_error' = "ValueError"
           /\ reached' = "none"
           /\ UNCHANGED <<_data_arr, _max_index, _input_channels,
                          connection_open, streaming>> ]_vars

\* A call with a frequency that is not positive has raised ValueError on a
\* reader that holds a run and has a connection open.
C13_Witness ==
    /\ cd_pc = "raised"
    /\ cd_error = "ValueError"
    /\ frequency_arg <= 0
    /\ num_addrs > 0
    /\ seconds > 0
    /\ reached = "none"
    /\ _data_arr = PriorArray
    /\ _max_index = Len(PriorArray)
    /\ connection_open

\* C14 as stated: a call whose number of ranges differs from its number of
\* analog channels has, once its first step is over, raised ValueError
\* without open() having been called.
C14_RangeArityValidated ==
    (/\ cd_pc \notin {"idle", "call"}
     /\ num_addrs > 0 /\ seconds > 0 /\ frequency_arg > 0
     /\ num_ranges # num_ain)
        => /\ cd_pc = "raised"
           /\ cd_error = "ValueError"
           /\ reached = "none"

\* C15 as stated: the packet size _setup passes to stream_start is half the
\* resolved frequency when none was given (-1), the resolved frequency when
\* the one given is larger than it, and the one given otherwise.
C15_PacketSizeClampedToFrequency ==
    (reached = "started")
        => scans_used = IF scans_arg = -1 THEN frequency_used \div 2
                        ELSE IF scans_arg > frequency_used
                             THEN frequency_used
                             ELSE scans_arg

\* The host_time of the row that starts at flat index at.
HostTimeAt(at) == _data_arr[at + num_addrs + 2]

\* C16: the device_time of every written row is fixed by the packet size
\* and the row's place in its packet (packet_num being 0 at every write),
\* whatever the host clock read when the packets arrived.
C16_DeviceTimeIgnoresHostClock ==
    (reached = "started" /\ scans_used > 0)
        => \A r \in 1..(_max_index \div (num_addrs + 2)) :
              DeviceTimeAt((r - 1) * (num_addrs + 2))
                  = ((r - 1) % scans_used) * num_addrs

\* Two returned runs of three one-scan packets that differ in the arrival
\* times of their packets: here the second packet came late.
C16_Witness ==
    /\ CdReturned
    /\ scans_used = 1
    /\ num_addrs = 1
    /\ _max_index = 9
    /\ HostTimeAt(3) - HostTimeAt(0) = MaxDelay
    /\ HostTimeAt(6) - HostTimeAt(3) = 1

\* The rows collect_data has appended so far.
RowsAppended == _max_index \div (num_addrs + 2)

\* C17: when collect_data with a callback has returned, one callback was
\* submitted for each appended row, every submitted callback has finished
\* and no handle is left in all_waiting.
C17_CallbacksFinishedAtReturn ==
    (CdReturned /\ callback)
        => /\ Len(cb) = RowsAppended
           /\ \A h \in 1..Len(cb) : cb[h].state = "done"
           /\ all_waiting = <<>>

\* A returned run of two packets of two rows each, with a callback.
C17_Witness ==
    /\ CdReturned
    /\ callback
    /\ scans_used = 2
    /\ RowsAppended = 4
    /\ Len(cb) = 4

\* The row of the buffer that starts at flat index at.
BufferRow(at) == SubSeq(_data_arr, at + 1, at + num_addrs + 2)

\* C18: the argument of the h-th callback is the h-th row of the buffer,
\* len(channels) readings in device order, then device_time, then
\* host_time, and stays equal to that row whatever is written later.
C18_CallbackGetsOneWholeRow ==
    \A h \in 1..Len(cb) :
        /\ Len(cb[h].row) = num_addrs + 2
        /\ cb[h].row = BufferRow((h - 1) * (num_addrs + 2))
        /\ \A j \in 1..num_addrs :
              cb[h].row[j] = Reading((h - 1) * num_addrs + j)
        /\ cb[h].row[num_addrs + 1] = DeviceTimeAt((h - 1) * (num_addrs + 2))
        /\ cb[h].row[num_addrs + 2] = HostTimeAt((h - 1) * (num_addrs + 2))

\* Two more rows were written after the first one was handed to its
\* callback, which has not run yet.
C18_Witness ==
    /\ callback
    /\ num_addrs = 2
    /\ RowsAppended = 3
    /\ Len(cb) = 3
    /\ cb[1].state = "pending"

\* The thread of collect_data is inside the capture loop.
InCaptureLoop ==
    /\ reached = "started"
    /\ \/ cd_pc \in {"row", "time", "host"}
       \/ cd_pc = "read" /\ MaxIndexProperty < size

\* The buffer is full and holds the readings in the order of the device.
FullInDeviceOrder ==
    /\ _max_index = size
    /\ \A r \in 1..RowsAppended : \A j \in 1..num_addrs :
          _data_arr[(r - 1) * (num_addrs + 2) + j]
              = Reading((r - 1) * num_addrs + j)

\* A capture whose packets hold rows and whose buffer holds whole rows, with
\* a callback that does not raise.
SlowCallbackRun ==
    \E whole \in {TRUE} :
        /\ WholeProduct = whole
        /\ scans_used > 0
        /\ InCaptureLoop
        /\ callback
        /\ ~cb_fails

\* C19: inside the capture loop with a callback the thread always has a
\* step to take, whatever the state of the callbacks, and, when no callback
\* raises, seconds * frequency is whole and packets are not empty, a thread
\* that keeps running fills the buffer in device order even if no callback
\* ever finishes.
C19_CaptureNeverWaitsForCallbacks ==
    /\ []((InCaptureLoop /\ callback) => ENABLED CaptureStep)
    /\ SlowCallbackRun ~> FullInDeviceOrder

\* The buffer was filled with four rows while no callback had finished.
C19_Witness ==
    /\ reached = "started"
    /\ callback
    /\ _max_index = size
    /\ Len(cb) = 4
    /\ \A h \in 1..Len(cb) : cb[h].state = "pending"

\* C20 as stated: the pass over all_waiting that ends an iteration of the
\* capture loop leaves no handle of a finished callback in all_waiting, so
\* the handles kept are those of callbacks still running.
C20_FinishedHandlesReaped ==
    [][ (cd_pc = "row" /\ cd_pc' = "read" /\ callback)
            => \A k \in 1..Len(all_waiting') :
                  cb'[all_waiting'[k]].state = "pending" ]_vars

\* C21: whenever a call of to_array(mode='all') made while collect_data
\* runs returns, it returns None or an array of rows of len(channels) + 2
\* values that are rows of the buffer lying wholly below the write cursor.
C21_OnlyWholeRowsObserved ==
    [][ (/\ ta_pc # "returned" /\ ta_pc' = "returned"
         /\ ta_req' = ReqAll /\ ta_called_at' = "started")
            => /\ ta_ret'.kind \in {"none", "array"}
               /\ Len(ta_ret'.rows) * (num_addrs + 2) <= _max_index
               /\ \A r \in 1..Len(ta_ret'.rows) :
                     /\ Len(ta_ret'.rows[r]) = num_addrs + 2
                     /\ ta_ret'.rows[r]
                            = BufferRow((r - 1) * (num_addrs + 2)) ]_vars

\* to_array returned the one whole row while the second row of two channels
\* had its readings written but not its times.
C21_Witness ==
    /\ ta_pc = "returned"
    /\ ta_req = ReqAll
    /\ ta_called_at = "started"
    /\ ta_ret.kind = "array"
    /\ Len(ta_ret.rows) = 1
    /\ num_addrs = 2
    /\ cd_pc = "time"
    /\ _max_index = 6

\* to_array has returned from a call made with request q after collect_data
\* returned.
ReturnedFor(q) ==
    /\ ta_pc = "returned"
    /\ ta_req = q
    /\ ta_called_at = "started"
    /\ CdReturned

\* to_array(mode='range', start=a, end=b)
ReqRange(a, b) == [mode |-> "range", kw |-> TRUE, a |-> a, b |-> b]

\* to_array(mode='relative', num_rows=n)
ReqRelative(n) == [mode |-> "relative", kw |-> TRUE, a |-> n, b |-> 0]

\* rows are the rows first to last - 1 of the buffer, in order.
RowsOfBuffer(rows, first, last) ==
    /\ Len(rows) = last - first
    /\ \A r \in 1..Len(rows) :
          rows[r] = BufferRow((first + r - 1) * (num_addrs + 2))

\* C22 as stated: after collect_data appended n rows and returned, reading
\* the window of rows 0 to n returns exactly the n rows of the buffer, in
\* order.
C22_WindowReturnsAppendedRows ==
    \A n \in 1..MaxRowArg :
        (ReturnedFor(ReqRange(0, n)) /\ RowsAppended = n)
            => /\ ta_ret.kind = "array"
               /\ RowsOfBuffer(ta_ret.rows, 0, n)

\* C23 as stated: with R rows written, a range with 0 <= start < end <= R
\* returns the rows [start, end) and a relative request with 0 <= n <= R
\* returns the last n rows; every other range or relative request raises.
C23_RangeAndRelativeWindows ==
    \A a \in RowArgs : \A b \in RowArgs :
        /\ ReturnedFor(ReqRange(a, b))
              => IF 0 <= a /\ a < b /\ b <= RowsAppended
                 THEN /\ ta_ret.kind = "array"
                      /\ RowsOfBuffer(ta_ret.rows, a, b)
                 ELSE ta_ret.kind = "raised"
        /\ ReturnedFor(ReqRelative(a))
              => IF 0 <= a /\ a <= RowsAppended
                 THEN /\ ta_ret.kind = "array"
                      /\ RowsOfBuffer(ta_ret.rows, RowsAppended - a,
                                      RowsAppended)
                 ELSE ta_ret.kind = "raised"

\* C24: on a reader that has never collected data (no array, no stream
\* ever started), every call of to_array, in any mode and with any of the
\* arguments, returns None.
C24_NoneBeforeAnyData ==
    (ta_pc = "returned" /\ ta_called_at # "started" /\ _data_arr = <<>>)
        => ta_ret = NoArray

\* A range whose start is past its end, asked of a reader without data.
C24_Witness ==
    /\ ta_pc = "returned"
    /\ ta_req = ReqRange(2, 1)
    /\ ta_called_at = "none"
    /\ _data_arr = <<>>
    /\ ta_ret = NoArray

\* The property max_row (lines 847-855): -1 when max_index < 1, else
\* int(max_index / (len(self._input_channels) + 1)).
MaxRowProperty ==
    IF MaxIndexProperty < 1 THEN -1
    ELSE MaxIndexProperty \div (_input_channels + 1)

\* C25 as stated: max_row is the number of whole rows written, max_index
\* divided by len(channels) + 2, or -1 when nothing has been written.
C25_MaxRowCountsWholeRows ==
    (reached = "started")
        => MaxRowProperty = IF _max_index = 0 THEN -1
                            ELSE _max_index \div (num_addrs + 2)

\* C26: in every step of a run of collect_data after its stream was
\* started, max_index does not decrease, the cells below max_index keep
\* their values, and total_skip does not decrease.
C26_CursorAndSkipsOnlyGrow ==
    [][ (reached = "started" /\ reached' = "started")
            => /\ _max_index' >= _max_index
               /\ \A k \in 1.._max_index : _data_arr'[k] = _data_arr[k]
               /\ total_skip' >= total_skip ]_vars

\* A returned run of two rows or more whose skip counter was raised.
C26_Witness ==
    /\ CdReturned
    /\ RowsAppended >= 2
    /\ total_skip > 0

\* C27 as stated: connection_status is True exactly when the library holds
\* an open connection for the reader; no step of open, close or collect_data
\* taken from a state where the two agree leads to one where they differ.
C27_StatusMatchesConnection ==
    [][ (connection_open <=> lib_open)
            => (connection_open' <=> lib_open') ]_vars

\* C28 as stated: when collect_data returns, the device has delivered at least
\* seconds * frequency scans, and the returned total_time is at least the
\* requested duration.  A unit of total_time is the time the device takes
\* for one packet, scans_used / frequency_used seconds, which is the least
\* time between two reads of a device that delivers no more than
\* frequency_used scans per second.
C28_RunLastsTheDuration ==
    CdReturned
        => /\ produced * TicksPerSecond
                 >= seconds * frequency_arg * num_addrs
           /\ cd_ret.total_time * scans_used * TicksPerSecond
                 >= seconds * frequency_used

\* C29 as stated: a read that fails inside the capture loop is retried
\* once, so an LJMError leaves the loop of collect_data only after two
\* failed reads.
C29_ReadRetriedOnce ==
    (reached = "started" /\ cd_pc = "raised" /\ cd_error = "LJMError")
        => failed_reads = 2

\* to_array(mode='all'), called before collect_data, returned the row of an
\* earlier run.
EarlierRunSeen ==
    /\ ta_pc = "returned"
    /\ ta_req = ReqAll
    /\ ta_called_at = "none"
    /\ ta_ret.kind = "array"
    /\ Len(ta_ret.rows) = 1

\* C30: once a run of collect_data on a reader that held an earlier run has
\* returned, to_array(mode='all') has int(seconds * frequency) rows of
\* len(channels) + 2 values of this run, whose readings are the readings
\* the device delivered in this run, in order.
C30_SecondRunReplacesFirst ==
    (CdReturned /\ EarlierRunSeen)
        => /\ ToArrayAll.kind = "array"
           /\ Len(ToArrayAll.rows)
                 = (seconds * frequency_arg) \div TicksPerSecond
           /\ \A r \in 1..Len(ToArrayAll.rows) :
                 /\ Len(ToArrayAll.rows[r]) = num_addrs + 2
                 /\ \A j \in 1..num_addrs :
                       ToArrayAll.rows[r][j]
                          \in {Reading((r - 1) * num_addrs + j), Sentinel}

\* A run of two channels and three rows on a reader that held one row of
\* one channel.
C30_Witness ==
    /\ CdReturned
    /\ EarlierRunSeen
    /\ num_addrs = 2
    /\ Len(ToArrayAll.rows) = 3

(***************************************************************************)
(* Properties of the search of find_max_freq, checked under FmfSpec.       *)
(***************************************************************************)
\* A step in which a candidate fails: the except branch of the open phase,
\* a read after which the window has failed, or a read that raised LJMError.
FailedCandidateStep ==
    \/ pc = "open" /\ pc' # "guard"
    \/ /\ pc = "window"
       /\ pc' # "window"
       /\ ~(pc' = "else" /\ window' = window)

\* C31: a failed candidate of any kind doubles scans_per_read up to the
\* candidate rate and changes nothing else of the search while
\* scans_per_read < med_rate; otherwise max_rate becomes the failed rate,
\* med_rate the midpoint of min_rate and the failed rate, min_rate stays
\* and exponential mode is switched off.
C31_SameFailurePolicy ==
    [][ FailedCandidateStep
        => IF scans_per_read < med_rate
           THEN /\ scans_per_read'
                      = Max2(Min2(2 * scans_per_read, med_rate), ScansFloor)
                /\ UNCHANGED <<min_rate, med_rate, max_rate,
                               exponential_mode>>
           ELSE /\ max_rate' = med_rate
                /\ med_rate' = (min_rate + med_rate) \div 2
                /\ min_rate' = min_rate
                /\ exponential_mode' = FALSE ]_vars

\* A read raised LJMError at a candidate above the last passing one whose
\* scans_per_read had reached its rate: the interval was bisected.
C31_Witness ==
    /\ Returned
    /\ ret = ReturnNone
    /\ ~exponential_mode
    /\ min_rate > 0
    /\ max_rate > min_rate
    /\ med_rate = Mid(min_rate, max_rate)

\* C32 as stated: whenever a stream has just been started for a candidate,
\* the scans_per_read passed to _setup is at least 1 and at most the
\* candidate rate.
C32_PacketSizeWithinCandidate ==
    (pc = "guard")
        => /\ scans_per_read >= R(1)
           /\ scans_per_read <= med_rate

\* C33 as stated: a returned pair with a positive frequency has a
\* scans_per_read that is at most that frequency.
C33_ReturnedPairIsValidPlan ==
    (Returned /\ ret.kind = "pair" /\ ret.frequency > 0)
        => ret.scans_per_read <= ret.frequency

\* C34: in binary mode the pair (med_rate, scans_per_read) a stream has just
\* been started for is never the pair of the attempt before, so no window
\* runs twice in a row for one pair and the guard of lines 1351-1365 is
\* never entered, let alone entered again with nothing changed.
C34_NoPairRepeatedInBinaryMode ==
    (pc = "guard") => ~RepeatedPair

\* In binary mode, on a device that fails exactly above its threshold, a
\* window has started for a pair that differs from the pair of the attempt
\* before in its packet size, and one for a pair that differs in its rate.
C34_Witness ==
    /\ pc = "window"
    /\ ~exponential_mode
    /\ Counted
    /\ passes >= 3
    /\ window = <<>>
    /\ last_attempted_rate = med_rate
    /\ last_attempted_sample = scans_per_read
    /\ scans_per_read > R(1)
    /\ last_good_rate > 0

\* C35: once exponential mode is off, min_rate <= med_rate <= max_rate, and
\* min_rate is the rate of the last passing candidate, or 0 while none has
\* passed; and every candidate that passes has a higher rate than the one
\* that passed before it.
C35_BoundsBracketCandidate ==
    /\ [](~exponential_mode
            => /\ min_rate <= med_rate
               /\ med_rate <= max_rate
               /\ min_rate = IF last_good_rate = R(-1) THEN 0
                             ELSE last_good_rate)
    /\ [][ (pc = "else"
              /\ ObservationPassed(buffer_size, num_skips, ljm_buffer_size))
           => /\ last_good_rate' = med_rate
              /\ last_good_rate' > last_good_rate ]_vars

\* In binary mode a second candidate has passed, and the next candidate lies
\* strictly between the bounds.
C35_Witness ==
    /\ ~exponential_mode
    /\ pc = "open"
    /\ last_good_rate > R(100)
    /\ min_rate = last_good_rate
    /\ min_rate < med_rate
    /\ med_rate < max_rate

\* The search is in exponential mode above MaxExpRate, where the model
\* stops following it.
RateBeyondModel == exponential_mode /\ med_rate > R(MaxExpRate)

C37_SetupPassesPositiveValues ==
    (reached = "started" /\ frequency_arg > 0)
        => /\ frequency_used > 0
           /\ scans_used > 0
           /\ frequency_used <= frequency_arg

\* A run whose stream was started for a valid plan with a whole
\* seconds * frequency, on a device whose reads do not raise, with no
\* callback or one that does not raise.
StartedValidRun ==
    \E whole \in {TRUE} :
        /\ WholeProduct = whole
        /\ reached = "started"
        /\ cd_pc = "read"
        /\ ~read_errors
        /\ ~cb_fails

\* C38 as stated, for the plans whose seconds * frequency is whole (the
\* others leave the capture loop by the exception of C9): once the stream
\* is started, collect_data returns.
C38_CollectDataReturns ==
    StartedValidRun ~> CdReturned

(***************************************************************************)
(* to_array against the start of a run, checked under RdSpec.              *)
(***************************************************************************)
\* The array to_array(mode='all') returns for the run a reader held before
\* the call of collect_data.
PriorRows == [kind |-> "array", rows |-> <<PriorArray>>]

\* C39 as stated: to_array(mode='all'), called at any moment of a run of
\* collect_data on a reader that may hold an earlier run, returns None, the
\* rows of the earlier run, or rows of this run, each of len(inputs) + 2
\* values and equal to the row of the buffer at its place.
C39_RunsNeverMixed ==
    (ta_pc = "returned" /\ ta_req = ReqAll)
        => \/ ta_ret = NoArray
           \/ ta_ret = PriorRows
           \/ /\ ta_ret.kind = "array"
              /\ \A r \in 1..Len(ta_ret.rows) :
                    /\ Len(ta_ret.rows[r]) = num_addrs + 2
                    /\ ta_ret.rows[r] = BufferRow((r - 1) * (num_addrs + 2))

(***************************************************************************)
(* LJMLibrary: the dictionaries _ljm_is_open and _ljm_buffer under calls of *)
(* connection_open, connection_close, connection_close_all, stream_start,  *)
(* stream_read and stream_stop, made in any order on any handle.           *)
(***************************************************************************)
\* A dict with the entry of key k set to v, and one without the key k.
WithEntry(d, k, v) ==
    [x \in (DOMAIN d) \cup {k} |-> IF x = k THEN v ELSE d[x]]

WithoutEntry(d, k) == [x \in (DOMAIN d) \ {k} |-> d[x]]

\* LJMLibrary._validate_handle: what it raises, or "ok".  The lookup
\* self._ljm_is_open[handle] raises KeyError for a handle never opened.
ValidateHandle(h, stream_mode) ==
    IF stream_mode /\ h \notin DOMAIN _ljm_buffer THEN "KeyError"
    ELSE IF h \notin DOMAIN _ljm_is_open THEN "KeyError"
    ELSE IF ~_ljm_is_open[h] THEN "Exception"
    ELSE "ok"

\* The library has the handle noted as open.
NotedOpen(h) == IF h \in DOMAIN _ljm_is_open THEN _ljm_is_open[h] ELSE FALSE

\* Everything but the library and the streams.
restVars == <<fmfVars, connVars, cdVars, threshold, opens, flaky,
              read_errors, max_frequency>>

Called(op, h, out) == lib_call' = [op |-> op, handle |-> h, out |-> out]

\* connection_open: LJM_OpenS fails, or gives a handle with no open
\* connection, which is noted as open.
LibConnectionOpen ==
    \E h \in Handles :
        /\ ~NotedOpen(h)
        /\ \/ /\ Called("connection_open", h, "LJMError")
              /\ UNCHANGED _ljm_is_open
           \/ /\ Called("connection_open", h, "ok")
              /\ _ljm_is_open' = WithEntry(_ljm_is_open, h, TRUE)
        /\ UNCHANGED <<_ljm_buffer, dev_stream, restVars>>

\* connection_close: after validation LJM_Close fails, or closes the
\* connection, which ends a stream of the device.
LibConnectionClose ==
    \E h \in Handles :
        /\ IF ValidateHandle(h, FALSE) # "ok"
           THEN /\ Called("connection_close", h, ValidateHandle(h, FALSE))
                /\ UNCHANGED <<_ljm_is_open, dev_stream>>
           ELSE \/ /\ Called("connection_close", h, "LJMError")
                   /\ UNCHANGED <<_ljm_is_open, dev_stream>>
                \/ /\ Called("connection_close", h, "ok")
                   /\ _ljm_is_open' = WithEntry(_ljm_is_open, h, FALSE)
                   /\ dev_stream' = [dev_stream EXCEPT ![h] = FALSE]
        /\ UNCHANGED <<_ljm_buffer, restVars>>

\* connection_close_all: LJM_CloseAll fails, or closes every connection;
\* then _ljm_is_open is emptied.
LibConnectionCloseAll ==
    /\ \/ /\ Called("connection_close_all", 0, "LJMError")
          /\ UNCHANGED <<_ljm_is_open, dev_stream>>
       \/ /\ Called("connection_close_all", 0, "ok")
          /\ _ljm_is_open' = <<>>
          /\ dev_stream' = [h \in Handles |-> FALSE]
    /\ UNCHANGED <<_ljm_buffer, restVars>>

\* stream_start: after validation the entry of the handle is written (line
\* 606), then LJM_eStreamStart is called, which fails when a stream is
\* active on the device and may fail otherwise.
LibStreamStart ==
    \E h \in Handles, n \in 1..MaxBuffer :
        /\ IF ValidateHandle(h, FALSE) # "ok"
           THEN /\ Called("stream_start", h, ValidateHandle(h, FALSE))
                /\ UNCHANGED <<_ljm_buffer, dev_stream>>
           ELSE /\ _ljm_buffer' = WithEntry(_ljm_buffer, h, n)
                /\ \/ /\ Called("stream_start", h, "LJMError")
                      /\ UNCHANGED dev_stream
                   \/ /\ ~dev_stream[h]
                      /\ Called("stream_start", h, "ok")
                      /\ dev_stream' = [dev_stream EXCEPT ![h] = TRUE]
        /\ UNCHANGED <<_ljm_is_open, restVars>>

\* stream_read: after validation LJM_eStreamRead is called, which fails
\* when no stream is active and may fail otherwise.
LibStreamRead ==
    \E h \in Handles :
        /\ IF ValidateHandle(h, TRUE) # "ok"
           THEN Called("stream_read", h, ValidateHandle(h, TRUE))
           ELSE \/ Called("stream_read", h, "LJMError")
                \/ /\ dev_stream[h]
                   /\ Called("stream_read", h, "ok")
        /\ UNCHANGED <<_ljm_buffer, _ljm_is_open, dev_stream, restVars>>

\* stream_stop: after validation the entry of the handle is deleted (line
\* 647), then LJM_eStreamStop is called, which fails when no stream is
\* active and may fail otherwise, leaving the stream as it is.
LibStreamStop ==
    \E h \in Handles :
        /\ IF ValidateHandle(h, TRUE) # "ok"
           THEN /\ Called("stream_stop", h, ValidateHandle(h, TRUE))
                /\ UNCHANGED <<_ljm_buffer, dev_stream>>
           ELSE /\ _ljm_buffer' = WithoutEntry(_ljm_buffer, h)
                /\ \/ /\ Called("stream_stop", h, "LJMError")
                      /\ UNCHANGED dev_stream
                   \/ /\ dev_stream[h]
                      /\ Called("stream_stop", h, "ok")
                      /\ dev_stream' = [dev_stream EXCEPT ![h] = FALSE]
        /\ UNCHANGED <<_ljm_is_open, restVars>>

\* The library before any call, with a reader that is not in use.
LibInit ==
    /\ FmfInit
    /\ ThresholdDevice
    /\ threshold = 0
    /\ max_frequency = 0
    /\ ~connection_open

LibNext ==
    \/ LibConnectionOpen
    \/ LibConnectionClose
    \/ LibConnectionCloseAll
    \/ LibStreamStart
    \/ LibStreamRead
    \/ LibStreamStop

LibSpec == LibInit /\ [][LibNext]_vars

\* C40 as stated: a handle has an entry in _ljm_buffer exactly while a
\* stream is active on it; stream_read and stream_stop on a handle with no
\* active stream raise KeyError; and a stream_start or stream_stop that
\* raises leaves _ljm_buffer as it was.
C40_BufferEntryIffStreamActive ==
    /\ [](\A h \in Handles : (h \in DOMAIN _ljm_buffer) <=> dev_stream[h])
    /\ [][ /\ (/\ lib_call'.op \in {"stream_read", "stream_stop"}
                /\ ~dev_stream[lib_call'.handle])
               => lib_call'.out = "KeyError"
           /\ (/\ lib_call'.op \in {"stream_start", "stream_stop"}
                /\ lib_call'.out # "ok")
               => _ljm_buffer' = _ljm_buffer ]_vars

====
